---- MODULE Spec2Model ----
(***************************************************************************)
(* Blink-PIN registration (register_pin.py) and the user store helpers     *)
(* (blink_utils.py).                                                       *)
(*                                                                         *)
(* Units.  Timestamps (time.time()) are counted in tenths of a second, so  *)
(* BLINK_DURATION_THRESHOLD = 0.4 s is 4 and MIN_BLINK_INTERVAL = 0.5 s is *)
(* 5.  EAR values are counted in hundredths, so EAR_THRESHOLD = 0.25 is    *)
(* 25.  A float is a pair <<num, den>> that stands for num/den, with       *)
(* MantissaBits significant bits where the code's float64 has 53; sums and *)
(* quotients round to nearest, ties to even, as IEEE 754 does.             *)
(* Strings that the code inspects character by character (the username,   *)
(* the PIN) are sequences of one-character strings.                        *)
(***************************************************************************)
EXTENDS Integers, Sequences, FiniteSets, TLC

(***************************************************************************)
(* Program constants (blink_utils.py, register_pin.py)                     *)
(***************************************************************************)
EAR_THRESHOLD == 25

BLINK_DURATION_THRESHOLD == 4

MIN_BLINK_INTERVAL == 5

CONSEC_FRAMES == 3

MAX_BLINKS == 4

\* the length of the smoothing window, the literal 5 of register_pin.py:93
EAR_WINDOW == 5

(***************************************************************************)
(* Bounds of the model                                                     *)
(***************************************************************************)
\* Spec: the clock value up to which the capture loop is followed
MaxTime == 22

\* Spec: the largest number of ticks between two frames
MaxStep == 2

\* SpecFull: the clock value up to which the capture loop is followed
MaxTimeFull == 46

\* SpecFull: the number of ticks between two frames
FramePeriod == 2

\* the below-threshold counter is followed up to this value
MaxConsec == 4

\* the significant bits of a float
MantissaBits == 6

\* SpecSmooth: the number of frames that are followed
MaxSamples == 6

\* the clock advances at most this many ticks between two store calls
MaxStoreTicks == 1

(***************************************************************************)
(* Inputs                                                                  *)
(***************************************************************************)
\* raw averaged EAR samples of a frame: eyes closed, eyes open
EarSamples == {10, 70}

\* SpecSmooth: and an EAR near the threshold
SmootherSamples == EarSamples \cup {26}

\* what the user types at the prompt of register_pin.py:42
RawUsernames == { <<>>, <<" ">>, <<"a">>, <<" ", "a", " ">> }

\* cv2.waitKey(1) & 0xFF: no key (or one that is not bound), quit, reset
Keys == {"none", "q", "r"}

\* time.time() when the program starts: last_blink_time starts at 0.0 and
\* the epoch clock is beyond MIN_BLINK_INTERVAL seconds
StartTime == MIN_BLINK_INTERVAL + 1

VARIABLES
    pc,                \* position of main: "prompt", "capture", "finish", "done";
                       \* "library" when the store helpers are called directly
    username,          \* register_pin.py:42
    blink_sequence,    \* register_pin.py:58
    ear_history,       \* register_pin.py:60
    is_blinking,       \* register_pin.py:61
    blink_start_time,  \* register_pin.py:62
    last_blink_time,   \* register_pin.py:63
    consec_blinks,     \* register_pin.py:64
    clock,             \* the wall clock that time.time() reads
    file,              \* the content of users.json
    file0,             \* history: users.json when the program started
    saves,             \* history: the set_user_pin calls main has made
    run,               \* history: the shape of the frames read so far
    written,           \* history: the PIN of the last write of each username
    out,               \* the last call to a store helper and what it returned
    proc,              \* the processes that run set_user_pin side by side:
                       \* how far each one is, and its local db
    order              \* history: the steps of those processes, in order

captureVars == << blink_sequence, ear_history, is_blinking, blink_start_time,
                  last_blink_time, consec_blinks >>

vars == << pc, username, blink_sequence, ear_history, is_blinking,
           blink_start_time, last_blink_time, consec_blinks, clock, file,
           file0, saves, run, written, out, proc, order >>

(***************************************************************************)
(* blink_utils.py: the user store                                          *)
(***************************************************************************)
\* str.encode() of a PIN: the code point of each character
Encode(pin) == [i \in 1..Len(pin) |-> IF pin[i] = "0" THEN 48 ELSE 49]

\* mutant: the last character of the PIN is not hashed
hash_pin_truncated(pin) ==
    [alg |-> "sha256", msg |-> Encode(SubSeq(pin, 1, Len(pin) - 1))]

\* hashlib.sha256(pin.encode()).hexdigest(): the digest is kept symbolic, as
\* the SHA-256 of a byte string, and as such free of collisions
hash_pin(pin) == [alg |-> "sha256", msg |-> Encode(pin)]

\* Python's None where a digest is expected
None == [alg |-> "None", msg |-> << >>]

\* the dict {}
EmptyDict == [u \in {} |-> 0]

\* users.json as load_users tells its contents apart; extra tells whether the
\* object holds another key than "users"
FileContent(kind, hasUsers, usersIsDict, users, extra) ==
    [kind |-> kind, hasUsers |-> hasUsers, usersIsDict |-> usersIsDict,
     users |-> users, extra |-> extra]

MissingFile == FileContent("missing", FALSE, FALSE, EmptyDict, FALSE)

\* the files users.json can be when nothing has written it yet, or when
\* something else has: absent, not readable, not JSON, JSON that is no
\* object, an object with or without "users", "users" a dict or not
MalformedFiles ==
    { MissingFile,
      FileContent("unreadable", FALSE, FALSE, EmptyDict, FALSE),
      FileContent("invalid", FALSE, FALSE, EmptyDict, FALSE),
      FileContent("nonobject", FALSE, FALSE, EmptyDict, FALSE),
      FileContent("object", FALSE, FALSE, EmptyDict, FALSE),
      FileContent("object", FALSE, FALSE, EmptyDict, TRUE),
      FileContent("object", TRUE, FALSE, EmptyDict, FALSE),
      FileContent("object", TRUE, FALSE, EmptyDict, TRUE) }

WellFormedEmptyFiles ==
    { FileContent("object", TRUE, TRUE, EmptyDict, FALSE),
      FileContent("object", TRUE, TRUE, EmptyDict, TRUE) }

\* a dict as load_users returns it, or the exception that left it instead
Db(users, usersIsDict, extra) ==
    [exc |-> "none", users |-> users, usersIsDict |-> usersIsDict,
     extra |-> extra]

\* the dict {"users": {}}
EmptyDb == Db(EmptyDict, TRUE, FALSE)

\* lines 125-126: open(path, "r") and json.load(f)
read_json(f) ==
    [exc |-> IF f.kind = "unreadable" THEN "OSError"
             ELSE IF f.kind = "invalid" THEN "JSONDecodeError"
             ELSE "none",
     isObject |-> f.kind = "object", hasUsers |-> f.hasUsers,
     usersIsDict |-> f.usersIsDict, users |-> f.users, extra |-> f.extra]

\* mutant: the exceptions of open and json.load are not caught
load_users_uncaught(f) ==
    IF f.kind = "missing" THEN EmptyDb
    ELSE LET data == read_json(f)
         IN  IF data.exc # "none"
             THEN [exc |-> data.exc, users |-> EmptyDict, usersIsDict |-> TRUE,
                   extra |-> FALSE]
             ELSE IF ~data.isObject \/ ~data.hasUsers THEN EmptyDb
             ELSE IF ~data.usersIsDict THEN Db(EmptyDict, TRUE, data.extra)
             ELSE Db(data.users, TRUE, data.extra)

load_users(f) ==
    IF f.kind = "missing" THEN EmptyDb
    ELSE LET data == read_json(f)
         IN  IF data.exc # "none" THEN EmptyDb
             ELSE IF ~data.isObject \/ ~data.hasUsers THEN EmptyDb
             ELSE IF ~data.usersIsDict THEN Db(EmptyDict, TRUE, data.extra)
             ELSE Db(data.users, TRUE, data.extra)

\* mutant: the dump is cut short, and the file is no JSON
save_users_cut_short(data) ==
    FileContent("invalid", FALSE, FALSE, EmptyDict, FALSE)

\* json.dump of a dict that holds "users": the file then parses to that dict
save_users(data) ==
    FileContent("object", TRUE, data.usersIsDict, data.users, data.extra)

UserRecord(pin_plain, t) ==
    [pin_hash |-> hash_pin(pin_plain), pin_length |-> Len(pin_plain),
     updated_at |-> t]

\* mutant: a record already there is kept (setdefault)
PutRecordKeepsFirst(db, user, record) ==
    [db EXCEPT !.users = db.users @@ (user :> record)]

\* db["users"][username] = {...}
PutRecord(db, user, record) ==
    [db EXCEPT !.users = (user :> record) @@ db.users]

\* set_user_pin called at time t on file f: the file it leaves, and whether
\* it returned or raised (an exception of load_users, or of the item
\* assignment when db["users"] is no dict, is not caught here)
set_user_pin(f, user, pin_plain, t) ==
    LET db == load_users(f)
    IN  IF db.exc # "none" \/ ~db.usersIsDict
        THEN [status |-> "raised", file |-> f]
        ELSE [status |-> "returned",
              file |-> save_users(PutRecord(db, user, UserRecord(pin_plain, t)))]

get_user_pin_hash(f, user) ==
    LET db == load_users(f)
    IN  IF db.exc # "none" \/ ~db.usersIsDict
        THEN [status |-> "raised", hash |-> None]
        ELSE IF user \notin DOMAIN db.users
        THEN [status |-> "returned", hash |-> None]
        ELSE [status |-> "returned", hash |-> db.users[user].pin_hash]

\* mutant: MAX_BLINKS, not the caller's default, for an unknown user
get_user_pin_length_fixed(f, user, default_length) ==
    LET db == load_users(f)
    IN  IF db.exc # "none" \/ ~db.usersIsDict
        THEN [status |-> "raised", length |-> 0]
        ELSE IF user \notin DOMAIN db.users
        THEN [status |-> "returned", length |-> MAX_BLINKS]
        ELSE [status |-> "returned", length |-> db.users[user].pin_length]

get_user_pin_length(f, user, default_length) ==
    LET db == load_users(f)
    IN  IF db.exc # "none" \/ ~db.usersIsDict
        THEN [status |-> "raised", length |-> 0]
        ELSE IF user \notin DOMAIN db.users
        THEN [status |-> "returned", length |-> default_length]
        ELSE [status |-> "returned", length |-> db.users[user].pin_length]

(***************************************************************************)
(* register_pin.py: the helpers of the capture loop                        *)
(***************************************************************************)
\* the sum of a sequence of numbers, exact
RECURSIVE Sum(_)
Sum(s) == IF s = << >> THEN 0 ELSE Head(s) + Sum(Tail(s))

RECURSIVE StripLeft(_)
StripLeft(s) ==
    IF s # << >> /\ Head(s) = " " THEN StripLeft(Tail(s)) ELSE s

RECURSIVE StripRight(_)
StripRight(s) ==
    IF s # << >> /\ s[Len(s)] = " " THEN StripRight(SubSeq(s, 1, Len(s) - 1))
    ELSE s

\* str.strip()
Strip(s) == StripRight(StripLeft(s))

\* ear_history.append(avg_ear), then pop(0) when more than five are held
PushSample(history, avg_ear) ==
    LET h == Append(history, avg_ear)
    IN  IF Len(h) > EAR_WINDOW THEN Tail(h) ELSE h

RECURSIVE Pow2(_)
Pow2(n) == IF n = 0 THEN 1 ELSE 2 * Pow2(n - 1)

\* the float nearest to a/b, for a/b of MantissaBits bits before the point
RoundToInteger(a, b) ==
    LET q == a \div b
        r == a % b
    IN  IF 2 * r > b \/ (2 * r = b /\ q % 2 = 1) THEN << q + 1, 1 >>
        ELSE << q, 1 >>

\* the float nearest to a/b >= 0: the quotient is scaled by a power of two
\* until it has MantissaBits bits before the point, rounded, and scaled back
RECURSIVE RoundToFloat(_, _)
RoundToFloat(a, b) ==
    IF a = 0 THEN << 0, 1 >>
    ELSE IF a >= Pow2(MantissaBits) * b
    THEN LET x == RoundToFloat(a, 2 * b) IN << 2 * x[1], x[2] >>
    ELSE IF a < Pow2(MantissaBits - 1) * b
    THEN LET x == RoundToFloat(2 * a, b) IN << x[1], 2 * x[2] >>
    ELSE RoundToInteger(a, b)

\* x + y of two floats
float_add(x, y) == RoundToFloat(x[1] * y[2] + y[1] * x[2], x[2] * y[2])

\* the sum np.mean takes: the items added one after the other from 0.0
RECURSIVE np_sum(_)
np_sum(a) ==
    IF a = << >> THEN << 0, 1 >>
    ELSE float_add(np_sum(SubSeq(a, 1, Len(a) - 1)), << a[Len(a)], 1 >>)

\* np.mean: the sum divided by the number of items
np_mean(a) == LET s == np_sum(a) IN RoundToFloat(s[1], s[2] * Len(a))

\* mutant: the sum is divided by the length of a full window
SmoothEarFullWindow(history) ==
    LET s == np_sum(history) IN RoundToFloat(s[1], s[2] * EAR_WINDOW)

\* np.mean of every window the frames can fill, computed once
MeanOfWindow ==
    [a \in UNION { [1..n -> SmootherSamples] : n \in 1..EAR_WINDOW } |->
        np_mean(a)]
        @@ << >>

\* smooth_ear = float(np.mean(ear_history))
SmoothEar(history) == MeanOfWindow[history]

\* smooth_ear < EAR_THRESHOLD
BelowThreshold(smooth_ear) == smooth_ear[1] < EAR_THRESHOLD * smooth_ear[2]

\* mutant: the counter must exceed CONSEC_FRAMES
ConfirmClosureLate(blinking, consec, t, last) ==
    /\ ~blinking
    /\ consec > CONSEC_FRAMES
    /\ (t - last) > MIN_BLINK_INTERVAL

\* mutant: no test of the interval since the last blink
ConfirmClosureNoInterval(blinking, consec, t, last) ==
    /\ ~blinking
    /\ consec >= CONSEC_FRAMES

\* mutant: only the frame on which the counter reaches CONSEC_FRAMES confirms
ConfirmClosureOnlyFirst(blinking, consec, t, last) ==
    /\ ~blinking
    /\ consec = CONSEC_FRAMES
    /\ (t - last) > MIN_BLINK_INTERVAL

\* the closure is confirmed on this frame (the counter already incremented)
ConfirmClosure(blinking, consec, t, last) ==
    /\ ~blinking
    /\ consec >= CONSEC_FRAMES
    /\ (t - last) > MIN_BLINK_INTERVAL

\* mutant: a duration equal to the threshold is quick
ClassifyInclusive(blink_duration) ==
    IF blink_duration <= BLINK_DURATION_THRESHOLD THEN "quick" ELSE "long"

\* blink_type from blink_duration
Classify(blink_duration) ==
    IF blink_duration < BLINK_DURATION_THRESHOLD THEN "quick" ELSE "long"

BLINK_TO_DIGIT(b) == IF b = "quick" THEN "0" ELSE "1"

\* mutant: complete only beyond MAX_BLINKS
is_complete_beyond(seq) == Len(seq) > MAX_BLINKS

\* len(blink_sequence) >= MAX_BLINKS; line 129 tests its negation
is_complete(seq) == Len(seq) >= MAX_BLINKS

\* mutant: the digits are joined last symbol first
RenderDigitsReversed(seq) ==
    [i \in 1..Len(seq) |-> BLINK_TO_DIGIT(seq[Len(seq) + 1 - i])]

\* "".join([BLINK_TO_DIGIT[b] for b in blink_sequence])
RenderDigits(seq) == [i \in 1..Len(seq) |-> BLINK_TO_DIGIT(seq[i])]

\* the detector's variables as one record
Detector ==
    [seq |-> blink_sequence, blinking |-> is_blinking,
     start |-> blink_start_time, last |-> last_blink_time,
     consec |-> consec_blinks]

\* mutant: blink_start_time follows every below-threshold frame
DetectRestartsClosure(d, below, t) ==
    IF below
    THEN LET c == d.consec + 1
         IN  IF d.blinking \/ ConfirmClosure(d.blinking, c, t, d.last)
             THEN [d EXCEPT !.consec = c, !.blinking = TRUE, !.start = t]
             ELSE [d EXCEPT !.consec = c]
    ELSE IF d.blinking
         THEN IF ~is_complete(d.seq)
              THEN [d EXCEPT !.consec = 0, !.blinking = FALSE, !.last = t,
                             !.seq = Append(d.seq, Classify(t - d.start))]
              ELSE [d EXCEPT !.consec = 0, !.blinking = FALSE]
         ELSE [d EXCEPT !.consec = 0]

\* the blink detection of one frame with a face, read at time t
Detect(d, below, t) ==
    IF below
    THEN LET c == d.consec + 1
         IN  IF ConfirmClosure(d.blinking, c, t, d.last)
             THEN [d EXCEPT !.consec = c, !.blinking = TRUE, !.start = t]
             ELSE [d EXCEPT !.consec = c]
    ELSE IF d.blinking
         THEN IF ~is_complete(d.seq)
              THEN [d EXCEPT !.consec = 0, !.blinking = FALSE, !.last = t,
                             !.seq = Append(d.seq, Classify(t - d.start))]
              ELSE [d EXCEPT !.consec = 0, !.blinking = FALSE]
         ELSE [d EXCEPT !.consec = 0]

\* mutant: the reset leaves a confirmed closure confirmed
ResetKeyKeepsClosure(d) == [d EXCEPT !.seq = << >>, !.consec = 0]

\* mutant: the reset leaves the below-threshold counter
ResetKeyKeepsCounter(d) == [d EXCEPT !.seq = << >>, !.blinking = FALSE]

\* the reset key
ResetKey(d) == [d EXCEPT !.seq = << >>, !.blinking = FALSE, !.consec = 0]

\* the while loop ends after this frame
LoopBreaks(key, d) == key = "q" \/ is_complete(d.seq)

(***************************************************************************)
(* History of the frames, for the claims about a run of frames             *)
(***************************************************************************)
NoFrames ==
    [pure |-> TRUE, below |-> 0, ended |-> FALSE, since |-> 0, log |-> FALSE,
     samples |-> << >>]

\* SpecSmooth: the raw EAR of every frame with a face is kept in samples
LogSamples == [NoFrames EXCEPT !.log = TRUE]

NotPure(r) == [r EXCEPT !.pure = FALSE, !.below = 0, !.ended = FALSE]

\* pure: every frame so far had a face and no key; below: how many, all
\* below the threshold; ended: then one frame at or above it.
\* since: the frames with a face below the threshold since the last reset
\* key or frame at or above the threshold.
NextRun(r, face, avg_ear, below, key) ==
    LET shape == IF r.pure /\ ~r.ended /\ face /\ key = "none"
                 THEN IF below THEN [r EXCEPT !.below = @ + 1]
                      ELSE [r EXCEPT !.ended = TRUE]
                 ELSE NotPure(r)
    IN  [shape EXCEPT
            !.since = IF key = "r" THEN 0
                      ELSE IF ~face THEN @
                      ELSE IF below THEN @ + 1 ELSE 0,
            !.samples = IF face /\ r.log THEN Append(@, avg_ear) ELSE @]

\* the processes that call set_user_pin side by side
Procs == {1, 2}

\* none of them is running
NoProcs == [p \in Procs |-> [pc |-> "none", db |-> EmptyDb]]

\* no store helper has been called
NoCall == [op |-> "none", user |-> << >>, pin |-> << >>, default |-> 0,
           status |-> "none", hash |-> None, length |-> 0]

(***************************************************************************)
(* register_pin.py: main                                                   *)
(***************************************************************************)
\* a store that already holds another user's PIN
ExistingStore ==
    set_user_pin(MissingFile, <<"b">>, <<"0", "1", "1", "0">>, 1).file

InitialFiles == { MissingFile, ExistingStore }

MainInit ==
    /\ pc = "prompt"
    /\ username = << >>
    /\ blink_sequence = << >>
    /\ ear_history = << >>
    /\ is_blinking = FALSE
    /\ blink_start_time = 0
    /\ last_blink_time = 0
    /\ consec_blinks = 0
    /\ clock = StartTime
    /\ file \in InitialFiles
    /\ file0 = file
    /\ saves = 0
    /\ run \in { NoFrames, LogSamples }
    /\ written = EmptyDict
    /\ out = NoCall
    /\ proc = NoProcs
    /\ order = << >>

\* the capture loop does not read users.json: one store is followed
Init == MainInit /\ file = ExistingStore /\ run = NoFrames

\* lines 42-53: the prompt, then the camera
Start(raw, cameraOpened) ==
    /\ pc = "prompt"
    /\ username' = Strip(raw)
    /\ pc' = IF username' = << >> \/ ~cameraOpened THEN "done" ELSE "capture"
    /\ UNCHANGED << captureVars, clock, file, file0, saves, run, written, out,
                    proc, order >>

\* lines 225-237: the key, then the test for a complete PIN
EndOfFrame(d, key) ==
    LET d2 == IF key = "r" THEN ResetKey(d) ELSE d
    IN  /\ blink_sequence' = d2.seq
        /\ is_blinking' = d2.blinking
        /\ blink_start_time' = d2.start
        /\ last_blink_time' = d2.last
        /\ consec_blinks' = d2.consec
        /\ pc' = IF LoopBreaks(key, d2) THEN "finish" ELSE "capture"

\* lines 70-73: cap.read() fails
ReadFails(dt) ==
    /\ pc = "capture"
    /\ clock' = clock + dt
    /\ pc' = "finish"
    /\ run' = NotPure(run)
    /\ UNCHANGED << username, captureVars, file, file0, saves, written, out,
                    proc, order >>

\* mutant: a frame without a face clears the below-threshold counter
FrameNoFaceClearsCounter(dt, key) ==
    /\ pc = "capture"
    /\ clock' = clock + dt
    /\ ear_history' = ear_history
    /\ EndOfFrame([Detector EXCEPT !.consec = 0], key)
    /\ run' = NextRun(run, FALSE, 0, FALSE, key)
    /\ UNCHANGED << username, file, file0, saves, written, out,
                    proc, order >>

\* lines 70-81, 179-237: a frame in which no face is found
FrameNoFace(dt, key) ==
    /\ pc = "capture"
    /\ clock' = clock + dt
    /\ ear_history' = ear_history
    /\ EndOfFrame(Detector, key)
    /\ run' = NextRun(run, FALSE, 0, FALSE, key)
    /\ UNCHANGED << username, file, file0, saves, written, out,
                    proc, order >>

\* lines 70-178, 190-237: a frame with a face whose averaged EAR is avg_ear
\* (create_face_mesh asks for max_num_faces=1: the loop of line 84 runs once)
FrameFace(dt, avg_ear, key) ==
    LET history == PushSample(ear_history, avg_ear)
        below   == BelowThreshold(SmoothEar(history))
    IN  /\ pc = "capture"
        /\ clock' = clock + dt
        /\ ear_history' = history
        /\ EndOfFrame(Detect(Detector, below, clock'), key)
        /\ run' = NextRun(run, TRUE, avg_ear, below, key)
        /\ UNCHANGED << username, file, file0, saves, written, out,
                        proc, order >>

\* what Finish does when the PIN is saved
SavePin(dt) ==
    LET pin_str == RenderDigits(blink_sequence)
        res     == set_user_pin(file, username, pin_str, clock')
    IN  /\ file' = res.file
        /\ saves' = saves + 1
        /\ written' = IF res.status = "returned"
                      THEN (username :> pin_str) @@ written
                      ELSE written

\* mutant: the PIN is saved whether complete or not
FinishAlwaysSaves(dt) ==
    /\ pc = "finish"
    /\ clock' = clock + dt
    /\ pc' = "done"
    /\ SavePin(dt)
    /\ UNCHANGED << username, captureVars, file0, run, out,
                    proc, order >>

\* lines 243-251: save if complete
Finish(dt) ==
    /\ pc = "finish"
    /\ clock' = clock + dt
    /\ pc' = "done"
    /\ IF is_complete(blink_sequence)
       THEN SavePin(dt)
       ELSE UNCHANGED << file, saves, written >>
    /\ UNCHANGED << username, captureVars, file0, run, out,
                    proc, order >>

\* the model follows the below-threshold counter up to MaxConsec
CounterInBounds(avg_ear) ==
    BelowThreshold(SmoothEar(PushSample(ear_history, avg_ear)))
        => consec_blinks < MaxConsec

\* Frames one to MaxStep ticks apart, until MaxTime.
Next ==
    \/ \E raw \in RawUsernames, cameraOpened \in BOOLEAN : Start(raw, cameraOpened)
    \/ \E dt \in 1..MaxStep : clock + dt <= MaxTime /\ ReadFails(dt)
    \/ \E dt \in 1..MaxStep, key \in Keys :
          clock + dt <= MaxTime /\ FrameNoFace(dt, key)
    \/ \E dt \in 1..MaxStep, avg_ear \in EarSamples, key \in Keys :
          clock + dt <= MaxTime /\ CounterInBounds(avg_ear)
              /\ FrameFace(dt, avg_ear, key)
    \/ Finish(0)

Spec == Init /\ [][Next]_vars

\* Whole runs: a camera that delivers a frame every FramePeriod ticks, until
\* MaxTimeFull, which is long enough for MAX_BLINKS blinks of both kinds.
InitFull == MainInit /\ run = NoFrames

NextFull ==
    \/ \E raw \in RawUsernames, cameraOpened \in BOOLEAN : Start(raw, cameraOpened)
    \/ clock + FramePeriod <= MaxTimeFull /\ ReadFails(FramePeriod)
    \/ \E key \in Keys :
          clock + FramePeriod <= MaxTimeFull /\ FrameNoFace(FramePeriod, key)
    \/ \E avg_ear \in EarSamples, key \in Keys :
          clock + FramePeriod <= MaxTimeFull /\ CounterInBounds(avg_ear)
              /\ FrameFace(FramePeriod, avg_ear, key)
    \/ Finish(0)

SpecFull == InitFull /\ [][NextFull]_vars

\* The smoother: the first MaxSamples frames, one tick apart, with every raw
\* EAR kept in run.samples.
InitSmooth == MainInit /\ file = ExistingStore /\ run = LogSamples

NextSmooth ==
    \/ \E raw \in RawUsernames, cameraOpened \in BOOLEAN : Start(raw, cameraOpened)
    \/ \E key \in Keys :
          clock - StartTime < MaxSamples /\ FrameNoFace(1, key)
    \/ \E avg_ear \in SmootherSamples, key \in Keys :
          clock - StartTime < MaxSamples /\ FrameFace(1, avg_ear, key)

SpecSmooth == InitSmooth /\ [][NextSmooth]_vars

(***************************************************************************)
(* blink_utils.py: the store helpers as a library, called in any order     *)
(***************************************************************************)
StoreUsers == { << >>, <<"a">>, <<"b">> }

PinInputs == { <<"0", "1", "0", "1">>, <<"0", "1", "1", "0">>, <<"0", "1", "0">> }

DefaultLengths == { MAX_BLINKS, MAX_BLINKS + 2 }

StoreInit ==
    /\ pc = "library"
    /\ username = << >>
    /\ blink_sequence = << >>
    /\ ear_history = << >>
    /\ is_blinking = FALSE
    /\ blink_start_time = 0
    /\ last_blink_time = 0
    /\ consec_blinks = 0
    /\ clock = StartTime
    /\ file \in MalformedFiles \cup WellFormedEmptyFiles
    /\ file0 = file
    /\ saves = 0
    /\ run = NoFrames
    /\ written = EmptyDict
    /\ out = NoCall
    /\ proc = NoProcs
    /\ order = << >>

\* the variables of main
soloVars == << pc, username, captureVars, file0, saves, run >>

mainVars == << soloVars, proc, order >>

SetUserPin(user, pin_plain, dt) ==
    LET res == set_user_pin(file, user, pin_plain, clock')
    IN  /\ pc = "library"
        /\ clock' = clock + dt
        /\ file' = res.file
        /\ written' = IF res.status = "returned"
                      THEN (user :> pin_plain) @@ written
                      ELSE written
        /\ out' = [NoCall EXCEPT !.op = "set_user_pin", !.user = user,
                                 !.pin = pin_plain, !.status = res.status]
        /\ UNCHANGED mainVars

GetUserPinHash(user) ==
    LET res == get_user_pin_hash(file, user)
    IN  /\ pc = "library"
        /\ out' = [NoCall EXCEPT !.op = "get_user_pin_hash", !.user = user,
                                 !.status = res.status, !.hash = res.hash]
        /\ UNCHANGED << mainVars, clock, file, written >>

GetUserPinLength(user, default_length) ==
    LET res == get_user_pin_length(file, user, default_length)
    IN  /\ pc = "library"
        /\ out' = [NoCall EXCEPT !.op = "get_user_pin_length", !.user = user,
                                 !.default = default_length,
                                 !.status = res.status, !.length = res.length]
        /\ UNCHANGED << mainVars, clock, file, written >>

StoreNext ==
    \/ \E user \in StoreUsers, pin \in PinInputs, dt \in 0..MaxStoreTicks :
          clock + dt <= StartTime + MaxStoreTicks /\ SetUserPin(user, pin, dt)
    \/ \E user \in StoreUsers : GetUserPinHash(user)
    \/ \E user \in StoreUsers, d \in DefaultLengths : GetUserPinLength(user, d)

SpecStore == StoreInit /\ [][StoreNext]_vars

(***************************************************************************)
(* blink_utils.py: set_user_pin run by two processes on one users.json     *)
(***************************************************************************)
\* the processes register different usernames
ProcUser(p) == IF p = 1 THEN <<"a">> ELSE <<"b">>

\* users.json right after open(path, "w"): empty, which is no JSON
EmptyFile == FileContent("invalid", FALSE, FALSE, EmptyDict, FALSE)

\* users.json after a write at offset 0 over a longer content: a JSON value
\* and then the tail of the other one, which is no JSON
TornFile == FileContent("invalid", FALSE, FALSE, EmptyDict, TRUE)

ConcInit ==
    /\ pc = "concurrent"
    /\ username = << >>
    /\ blink_sequence = << >>
    /\ ear_history = << >>
    /\ is_blinking = FALSE
    /\ blink_start_time = 0
    /\ last_blink_time = 0
    /\ consec_blinks = 0
    /\ clock = StartTime
    /\ file \in InitialFiles
    /\ file0 = file
    /\ saves = 0
    /\ run = NoFrames
    /\ written = EmptyDict
    /\ out = NoCall
    /\ proc = [p \in Procs |-> [pc |-> "start", db |-> EmptyDb]]
    /\ order = << >>

\* lines 146-152: db = load_users(), and the record put into db
ConcLoad(p, pin_plain, dt) ==
    LET db == load_users(file)
    IN  /\ proc[p].pc = "start"
        /\ clock' = clock + dt
        /\ proc' = [proc EXCEPT ![p] =
               IF db.exc # "none" \/ ~db.usersIsDict
               THEN [pc |-> "raised", db |-> db]
               ELSE [pc |-> "loaded",
                     db |-> PutRecord(db, ProcUser(p),
                                      UserRecord(pin_plain, clock'))]]
        /\ order' = Append(order, << p, "load" >>)
        /\ UNCHANGED << soloVars, file, written, out >>

\* mutant: the store is read again before it is written
ConcOpenReloads(p) ==
    LET mine == proc[p].db.users[ProcUser(p)]
    IN  /\ proc[p].pc = "loaded"
        /\ proc' = [proc EXCEPT ![p] =
               [pc |-> "writing",
                db |-> PutRecord(load_users(file), ProcUser(p), mine)]]
        /\ file' = EmptyFile
        /\ order' = Append(order, << p, "open" >>)
        /\ UNCHANGED << soloVars, clock, written, out >>

\* line 140: open(path, "w") truncates users.json
ConcOpen(p) ==
    /\ proc[p].pc = "loaded"
    /\ proc' = [proc EXCEPT ![p].pc = "writing"]
    /\ file' = EmptyFile
    /\ order' = Append(order, << p, "open" >>)
    /\ UNCHANGED << soloVars, clock, written, out >>

\* lines 140-141: json.dump, and the write when the file is closed. The
\* write starts at offset 0; when another process has written since this
\* one truncated the file and that content is longer, its tail remains.
ConcWrite(p, longer) ==
    /\ proc[p].pc = "writing"
    /\ proc' = [proc EXCEPT ![p].pc = "done"]
    /\ file' = IF file # EmptyFile /\ longer THEN TornFile
               ELSE save_users(proc[p].db)
    /\ order' = Append(order, << p, "write" >>)
    /\ UNCHANGED << soloVars, clock, written, out >>

ConcNext ==
    \/ \E p \in Procs, pin \in PinInputs, dt \in 0..MaxStoreTicks :
          clock + dt <= StartTime + MaxStoreTicks /\ ConcLoad(p, pin, dt)
    \/ \E p \in Procs : ConcOpen(p)
    \/ \E p \in Procs, longer \in BOOLEAN : ConcWrite(p, longer)

SpecConc == ConcInit /\ [][ConcNext]_vars

(***************************************************************************)
(* Properties                                                              *)
(***************************************************************************)
\* a symbol is appended by this step
Appends == Len(blink_sequence') = Len(blink_sequence) + 1

\* C1: from the initial detector state, N frames below the threshold and then
\* one frame at or above it (a face in each, no key) leave exactly one symbol
\* when N >= CONSEC_FRAMES and none when N < CONSEC_FRAMES.
C1_RunOfClosedFrames ==
    run.ended =>
        Len(blink_sequence) = (IF run.below >= CONSEC_FRAMES THEN 1 ELSE 0)

C1_Witness ==
    /\ run.ended
    /\ run.below >= CONSEC_FRAMES
    /\ Len(blink_sequence) = 1

\* C2: a closure is confirmed on a frame read at t only if
\* t - last_blink_time > MIN_BLINK_INTERVAL, so a symbol is appended only more
\* than MIN_BLINK_INTERVAL after the symbol before it: a closure that begins
\* and ends within the interval after a registered blink adds nothing.
C2_Refractory ==
    [][ /\ (~is_blinking /\ is_blinking')
            => clock' - last_blink_time > MIN_BLINK_INTERVAL
        /\ Appends
            => last_blink_time' - last_blink_time > MIN_BLINK_INTERVAL ]_vars

\* a closure of CONSEC_FRAMES frames held back inside the interval
C2_Witness ==
    /\ Len(blink_sequence) = 1
    /\ ~is_blinking
    /\ consec_blinks >= CONSEC_FRAMES
    /\ clock - last_blink_time <= MIN_BLINK_INTERVAL

\* C3: the symbol appended for a blink is quick (digit 0) when the time of the
\* reopening frame minus blink_start_time is below BLINK_DURATION_THRESHOLD
\* and long (digit 1) otherwise; a duration equal to the threshold is long.
C3_Classification ==
    [][ Appends =>
          LET d   == clock' - blink_start_time
              sym == blink_sequence'[Len(blink_sequence')]
          IN  /\ d < BLINK_DURATION_THRESHOLD
                    => sym = "quick" /\ BLINK_TO_DIGIT(sym) = "0"
              /\ d >= BLINK_DURATION_THRESHOLD
                    => sym = "long" /\ BLINK_TO_DIGIT(sym) = "1" ]_vars

\* a blink of exactly the threshold, appended as long
C3_Witness ==
    /\ blink_sequence = << "long" >>
    /\ ~is_blinking
    /\ consec_blinks = 0
    /\ last_blink_time - blink_start_time = BLINK_DURATION_THRESHOLD

\* C4: the PIN sequence never holds more than MAX_BLINKS symbols, whatever
\* frames, missing faces and reset keys the loop has seen.
C4_AtMostMaxBlinks == Len(blink_sequence) <= MAX_BLINKS

C4_Witness == pc = "finish" /\ Len(blink_sequence) = MAX_BLINKS

\* C5: a run that ends with fewer than MAX_BLINKS symbols (quit key, failed
\* read, camera not opened, empty username) has not called set_user_pin and
\* leaves users.json as it was when the run started.
C5_IncompleteNothingSaved ==
    (pc = "done" /\ Len(blink_sequence) < MAX_BLINKS)
        => saves = 0 /\ file = file0

\* a run given up with a part of the PIN entered
C5_Witness ==
    /\ pc = "done"
    /\ Len(blink_sequence) > 0
    /\ Len(blink_sequence) < MAX_BLINKS

\* the usernames users.json holds a record for, read off the file itself
StoredUsers ==
    IF file.kind = "object" /\ file.hasUsers /\ file.usersIsDict
    THEN DOMAIN file.users ELSE {}

\* the PINs of n characters over 0 and 1
PinsOfLength(n) == [1..n -> {"0", "1"}]

\* C6: set_user_pin with an empty username fails with InvalidInput and writes
\* nothing: users.json never holds a record keyed by the empty string.
C6_EmptyUsernameRejected ==
    /\ << >> \notin StoredUsers
    /\ (out.op = "set_user_pin" /\ out.user = << >>)
           => out.status = "InvalidInput"

\* C7: once set_user_pin(u, p) is the last write for u, the digest of p' equals
\* the stored digest of u exactly when p' = p, for PINs of MAX_BLINKS
\* characters over 0 and 1.
C7_VerifyIffSamePin ==
    \A u \in DOMAIN written :
        Len(written[u]) = MAX_BLINKS =>
            \A p \in PinsOfLength(MAX_BLINKS) :
                (hash_pin(p) = get_user_pin_hash(file, u).hash) <=> (p = written[u])

\* 0101 registered, and its digest read back: not that of 0110
C7_Witness ==
    /\ out.op = "get_user_pin_hash"
    /\ out.user \in DOMAIN written
    /\ written[out.user] = <<"0", "1", "0", "1">>
    /\ out.hash = hash_pin(<<"0", "1", "0", "1">>)
    /\ out.hash # hash_pin(<<"0", "1", "1", "0">>)

\* C8: after any sequence of set_user_pin calls the store holds one record for
\* each username written and no other, and the record's pin_hash and
\* pin_length are those of the last call for that username.
C8_LatestWriteWins ==
    written # EmptyDict =>
        /\ StoredUsers = DOMAIN written
        /\ \A u \in DOMAIN written :
              /\ file.users[u].pin_hash = hash_pin(written[u])
              /\ file.users[u].pin_length = Len(written[u])

\* two usernames written, one of them after the other
C8_Witness ==
    /\ out.op = "set_user_pin"
    /\ DOMAIN written = { <<"a">>, <<"b">> }
    /\ written[<<"a">>] # written[<<"b">>]
    /\ file.users[<<"a">>].updated_at > file.users[<<"b">>].updated_at

\* users.json with "users" an empty dict and nothing else
EmptyStoreFile == FileContent("object", TRUE, TRUE, EmptyDict, FALSE)

C10_UnknownUser ==
    /\ out.op = "get_user_pin_hash" =>
          /\ out.status = "returned"
          /\ out.hash = IF out.user \in StoredUsers
                        THEN file.users[out.user].pin_hash ELSE None
    /\ out.op = "get_user_pin_length" =>
          /\ out.status = "returned"
          /\ out.length = IF out.user \in StoredUsers
                          THEN file.users[out.user].pin_length ELSE out.default
    /\ \A u \in StoreUsers \ StoredUsers :
          \A n \in 0..MAX_BLINKS : \A p \in PinsOfLength(n) :
              hash_pin(p) # get_user_pin_hash(file, u).hash

\* the length asked for an unknown user while the store holds another
C10_Witness ==
    /\ out.op = "get_user_pin_length"
    /\ StoredUsers # {}
    /\ out.user \notin StoredUsers
    /\ out.default # MAX_BLINKS
    /\ out.length = out.default

\* the store values set_user_pin can build from users.json as it is now: what
\* load_users returns, with one more record or one record replaced
StoreValues ==
    { load_users(file) } \cup
    { PutRecord(load_users(file), u, UserRecord(p, clock)) :
          u \in StoreUsers, p \in PinInputs }

CompletesPin ==
    /\ pc = "capture"
    /\ Len(blink_sequence) = MAX_BLINKS - 1
    /\ last_blink_time' # last_blink_time

\* C12: a sequence that has reached MAX_BLINKS symbols is not changed any
\* more: the frame that appends the last symbol leaves the loop with all
\* MAX_BLINKS symbols, whatever key is read on that frame, and no later step
\* changes them.
C12_CompleteIsImmutable ==
    [][ /\ CompletesPin =>
              /\ Len(blink_sequence') = MAX_BLINKS
              /\ SubSeq(blink_sequence', 1, MAX_BLINKS - 1) = blink_sequence
        /\ Len(blink_sequence) = MAX_BLINKS =>
              blink_sequence' = blink_sequence ]_vars

\* C13: a run that has left the loop with MAX_BLINKS symbols has called
\* set_user_pin once, with one digit for each symbol in the order of
\* detection, 0 for quick and 1 for long: the PIN has MAX_BLINKS characters
\* over 0 and 1, the record holds its digest and the length MAX_BLINKS, and
\* quick, long, quick, long is saved as 0101. Nothing is saved before.
C13_CompletePinSaved ==
    /\ pc # "done" => saves = 0
    /\ (pc = "done" /\ Len(blink_sequence) = MAX_BLINKS) =>
          /\ saves = 1
          /\ DOMAIN written = { username }
          /\ written[username] \in PinsOfLength(MAX_BLINKS)
          /\ \A i \in 1..MAX_BLINKS :
                written[username][i]
                    = (IF blink_sequence[i] = "quick" THEN "0" ELSE "1")
          /\ blink_sequence = << "quick", "long", "quick", "long" >>
                => written[username] = << "0", "1", "0", "1" >>
          /\ username \in StoredUsers
          /\ file.users[username].pin_hash = hash_pin(written[username])
          /\ file.users[username].pin_length = MAX_BLINKS

\* quick, long, quick, long registered as 0101
C13_Witness ==
    /\ pc = "done"
    /\ blink_sequence = << "quick", "long", "quick", "long" >>
    /\ saves = 1
    /\ file.users[username].pin_hash = hash_pin(<< "0", "1", "0", "1" >>)

\* C14: a frame in which no face is found leaves the below-threshold
\* counter, is_blinking, blink_start_time, last_blink_time, the smoothing
\* window and the PIN sequence as they were, and appends no symbol; only a
\* reset key read on that frame changes them, to what the reset gives.
C14_NoFaceFrameIsNoOp ==
    [][ \A dt \in 1..MaxStep, key \in Keys :
          FrameNoFace(dt, key) =>
              /\ ear_history' = ear_history
              /\ blink_start_time' = blink_start_time
              /\ last_blink_time' = last_blink_time
              /\ ~Appends
              /\ ~(~is_blinking /\ is_blinking')
              /\ key # "r" => captureVars' = captureVars
              /\ key = "r" =>
                    /\ blink_sequence' = ResetKey(Detector).seq
                    /\ is_blinking' = ResetKey(Detector).blinking
                    /\ consec_blinks' = ResetKey(Detector).consec ]_vars

\* a confirmed closure, one symbol entered, and then a frame without a face:
\* the counter is where the confirming frame left it, at a later time
C14_Witness ==
    /\ pc = "capture"
    /\ is_blinking
    /\ consec_blinks = CONSEC_FRAMES
    /\ clock > blink_start_time
    /\ Len(blink_sequence) = 1

\* the smoothed EAR of a frame with a face is below the threshold
FrameBelow(avg_ear) ==
    BelowThreshold(SmoothEar(PushSample(ear_history, avg_ear)))

\* C15: a frame whose smoothed EAR is below the threshold, read while a
\* closure is confirmed, leaves blink_start_time, last_blink_time and the
\* sequence as they were and, unless the reset key is read on it, leaves the
\* closure confirmed; a symbol is appended only by a frame whose smoothed EAR
\* is at or above the threshold, and one symbol at most.
C15_ClosedStaysClosed ==
    [][ /\ \A dt \in 1..MaxStep, avg_ear \in EarSamples, key \in Keys :
              (is_blinking /\ FrameBelow(avg_ear) /\ FrameFace(dt, avg_ear, key)) =>
                  /\ blink_start_time' = blink_start_time
                  /\ last_blink_time' = last_blink_time
                  /\ ~Appends
                  /\ key # "r" =>
                        /\ is_blinking'
                        /\ blink_sequence' = blink_sequence
        /\ Len(blink_sequence') <= Len(blink_sequence) + 1
        /\ Appends =>
              \E dt \in 1..MaxStep, avg_ear \in EarSamples, key \in Keys :
                  ~FrameBelow(avg_ear) /\ FrameFace(dt, avg_ear, key) ]_vars

\* the first closure, confirmed, and one more frame below the threshold
C15_Witness ==
    /\ pc = "capture"
    /\ is_blinking
    /\ last_blink_time = 0
    /\ consec_blinks = CONSEC_FRAMES + 1
    /\ clock > blink_start_time

\* a closure is confirmed by this step
Confirms == ~is_blinking /\ is_blinking'

\* C16 as stated: a closure is confirmed only on the frame on which the
\* counter reaches CONSEC_FRAMES, with the interval elapsed, and
\* blink_start_time is the time of that frame; never on a later frame of the
\* same run, with the counter above CONSEC_FRAMES.
C16_ConfirmedOnlyAtConsecFrames ==
    [][ Confirms =>
          /\ consec_blinks' = CONSEC_FRAMES
          /\ clock' - last_blink_time > MIN_BLINK_INTERVAL
          /\ blink_start_time' = clock' ]_vars

\* C16 amended: a closure is confirmed on the first frame of a
\* below-threshold run on which the counter is at least CONSEC_FRAMES and more
\* than MIN_BLINK_INTERVAL has passed since last_blink_time, and
\* blink_start_time is the time of that frame: every such frame read while no
\* closure is confirmed confirms one (the reset key on it undoes that), and no
\* other step does.
C16_ConfirmedOnFirstFrameAllowed ==
    [][ /\ Confirms =>
              /\ consec_blinks' >= CONSEC_FRAMES
              /\ consec_blinks' = consec_blinks + 1
              /\ clock' - last_blink_time > MIN_BLINK_INTERVAL
              /\ blink_start_time' = clock'
        /\ \A dt \in 1..MaxStep, avg_ear \in EarSamples, key \in Keys :
              ( /\ ~is_blinking
                /\ FrameBelow(avg_ear)
                /\ consec_blinks + 1 >= CONSEC_FRAMES
                /\ clock + dt - last_blink_time > MIN_BLINK_INTERVAL
                /\ key # "r"
                /\ FrameFace(dt, avg_ear, key) )
                  => /\ is_blinking'
                     /\ blink_start_time' = clock'
                     /\ consec_blinks' = consec_blinks + 1 ]_vars

\* a closure confirmed late: the counter passed CONSEC_FRAMES inside the
\* interval after the first blink
C16_Witness ==
    /\ pc = "capture"
    /\ is_blinking
    /\ consec_blinks > CONSEC_FRAMES
    /\ blink_start_time = clock
    /\ Len(blink_sequence) = 1

\* what a frame on which the reset key is read leaves
AfterReset ==
    /\ blink_sequence' = << >>
    /\ consec_blinks' = 0
    /\ ~is_blinking'
    /\ pc' = "capture"

\* C17: a frame on which the reset key is read, whatever the detector state
\* and the sequence, ends with the sequence empty, the counter 0 and no
\* closure confirmed, and the loop goes on; the reset does not touch
\* last_blink_time and the smoothing window, which are as the detection of
\* that frame left them (unchanged when the frame has no face).
C17_ResetClears ==
    [][ /\ \A dt \in 1..MaxStep :
              FrameNoFace(dt, "r") =>
                  /\ AfterReset
                  /\ last_blink_time' = last_blink_time
                  /\ ear_history' = ear_history
        /\ \A dt \in 1..MaxStep, avg_ear \in EarSamples :
              FrameFace(dt, avg_ear, "r") =>
                  /\ AfterReset
                  /\ last_blink_time'
                         = Detect(Detector, FrameBelow(avg_ear), clock').last
                  /\ FrameBelow(avg_ear) => last_blink_time' = last_blink_time
                  /\ ear_history' = PushSample(ear_history, avg_ear) ]_vars

\* a reset after one blink, read while the next closure was confirmed
C17_Witness ==
    /\ pc = "capture"
    /\ blink_sequence = << >>
    /\ ~is_blinking
    /\ last_blink_time > 0
    /\ blink_start_time > last_blink_time

Min(a, b) == IF a < b THEN a ELSE b

\* the last k items of s
LastN(s, k) == SubSeq(s, Len(s) - k + 1, Len(s))

\* the samples that the smoothing window should hold: the last EAR_WINDOW raw
\* samples, or all of them while there are fewer
RecentSamples == LastN(run.samples, Min(Len(run.samples), EAR_WINDOW))

\* the float m is the exact quotient total/n
ExactMean(m, total, n) == m[1] * n = total * m[2]

\* the float m is total/n up to the rounding of n float operations, each of
\* relative error at most 2^-MantissaBits: |m - total/n| is at most
\* (total/n) * n / (2^MantissaBits - n)
RoundedMean(m, total, n) ==
    LET diff == m[1] * n - total * m[2]
        abs  == IF diff < 0 THEN 0 - diff ELSE diff
    IN  abs * (Pow2(MantissaBits) - n) <= n * total * m[2]

\* every raw sample so far is the same
ConstantStream ==
    /\ run.samples # << >>
    /\ \A i \in 1..Len(run.samples) : run.samples[i] = run.samples[1]

\* k * v is a float for every k up to n: the partial sums of n copies of v
\* are exact
ExactSums(v, n) ==
    \A k \in 1..n : ExactMean(RoundToFloat(k * v, 1), k * v, 1)

\* C18 as stated: the window holds the last min(n, W) raw samples in the
\* order of arrival, never more than W, the smoothed sample is their mean,
\* and a constant stream of v over at least W frames is smoothed to v itself.
C18_ConstantStreamExact ==
    /\ ear_history = RecentSamples
    /\ Len(ear_history) <= EAR_WINDOW
    /\ ear_history # << >> =>
          RoundedMean(SmoothEar(ear_history), Sum(RecentSamples),
                      Len(RecentSamples))
    /\ (ConstantStream /\ Len(run.samples) >= EAR_WINDOW) =>
          ExactMean(SmoothEar(ear_history), run.samples[1], 1)

\* C18 amended: the window holds the last min(n, W) raw samples in the order
\* of arrival, never more than W, and the smoothed sample is their mean as
\* float arithmetic gives it, which is the arithmetic mean up to rounding; a
\* constant stream of v is smoothed to v up to rounding, and to v itself
\* when the partial sums of the window are exact.
C18_WindowMeanRounded ==
    /\ ear_history = RecentSamples
    /\ Len(ear_history) <= EAR_WINDOW
    /\ ear_history # << >> =>
          /\ SmoothEar(ear_history) = np_mean(RecentSamples)
          /\ RoundedMean(SmoothEar(ear_history), Sum(RecentSamples),
                         Len(RecentSamples))
    /\ ConstantStream =>
          /\ RoundedMean(SmoothEar(ear_history),
                         run.samples[1] * Len(ear_history), Len(ear_history))
          /\ ExactSums(run.samples[1], Len(ear_history)) =>
                ExactMean(SmoothEar(ear_history), run.samples[1], 1)

\* more than W frames, the oldest sample evicted, and a window of one value
\* whose float mean is not that value
C18_Witness ==
    /\ Len(run.samples) > EAR_WINDOW
    /\ run.samples[1] # ear_history[1]
    /\ \A i \in 1..EAR_WINDOW : ear_history[i] = 26
    /\ ~ExactMean(SmoothEar(ear_history), 26, 1)

\* is_blinking is set only with the counter at CONSEC_FRAMES or beyond, and
\* the counter is the number of frames below the threshold read since the
\* last reset key or frame at or above the threshold
ClosedImpliesCounter ==
    /\ is_blinking => consec_blinks >= CONSEC_FRAMES
    /\ pc = "capture" => consec_blinks = run.since

\* C20: in every state is_blinking implies consec_blinks >= CONSEC_FRAMES;
\* so a symbol is appended only by a frame at or above the threshold that
\* comes after CONSEC_FRAMES or more frames below it, all of them read after
\* the last reset key, also when that key was read with the eyes closed.
C20_ClosedImpliesCounter ==
    [][ /\ ClosedImpliesCounter
        /\ ClosedImpliesCounter'
        /\ Appends =>
              /\ is_blinking
              /\ run.since >= CONSEC_FRAMES
              /\ run.since' = 0
              /\ \E dt \in 1..MaxStep, avg_ear \in EarSamples, key \in Keys :
                    ~FrameBelow(avg_ear) /\ FrameFace(dt, avg_ear, key) ]_vars

\* the reset key read while the first closure was confirmed, and the eyes
\* still closed since: frames below the threshold, not yet CONSEC_FRAMES
C20_Witness ==
    /\ pc = "capture"
    /\ blink_sequence = << >>
    /\ ~is_blinking
    /\ last_blink_time = 0
    /\ blink_start_time > 0
    /\ consec_blinks = CONSEC_FRAMES - 1
    /\ run.since = CONSEC_FRAMES - 1

\* the position in order of the step op of process p (0: not taken yet)
StepAt(p, op) ==
    IF \E i \in 1..Len(order) : order[i] = << p, op >>
    THEN CHOOSE i \in 1..Len(order) : order[i] = << p, op >>
    ELSE 0

AllDone == \A p \in Procs : proc[p].pc = "done"

\* the process whose write came last
LastSaver == CHOOSE p \in Procs : \A q \in Procs : StepAt(q, "write") <= StepAt(p, "write")

\* no process opened users.json for writing before another one, that had
\* opened it, had written it: the saves ran one after the other
SavesInTurn ==
    \A p, q \in Procs :
        (p # q /\ StepAt(p, "open") < StepAt(q, "open"))
            => StepAt(p, "write") < StepAt(q, "open")

\* the record that process p built
RecordOf(p) == proc[p].db.users[ProcUser(p)]

\* users.json holds the record that process p built
Holds(p) ==
    /\ ProcUser(p) \in StoredUsers
    /\ file.users[ProcUser(p)] = RecordOf(p)

\* C19: when both processes are through, users.json is what the process
\* whose save came last wrote: it holds that process's record, and it holds
\* the other's record exactly when the last saver loaded after the other's
\* write; this for saves that ran one after the other, with the loads
\* anywhere in between.
C19_LastWriteWins ==
    AllDone =>
        /\ file = TornFile => ~SavesInTurn
        /\ file # TornFile =>
              /\ file = save_users(proc[LastSaver].db)
              /\ Holds(LastSaver)
              /\ \A q \in Procs \ { LastSaver } :
                    Holds(q) <=> StepAt(LastSaver, "load") > StepAt(q, "write")

\* a lost update: the saves ran one after the other, and the record of the
\* process that saved first is gone
C19_Witness ==
    /\ AllDone
    /\ SavesInTurn
    /\ \E q \in Procs \ { LastSaver } : ~Holds(q)
    /\ Holds(LastSaver)

====
